---- MODULE Spec2Model ----
(***************************************************************************)
(* A model of src/game/tetris.py: the shape catalog, the Tetromino value,  *)
(* the board functions (is_valid_position, lock_piece, clear_lines), the   *)
(* bag randomizer (next_bag, spawn_piece), hard_drop, the scoring policy   *)
(* and the event loop of main().                                           *)
(*                                                                         *)
(* A board is a sequence of GRID_HEIGHT rows, each a sequence of           *)
(* GRID_WIDTH cells; python's board[y][x] is board[y + 1][x + 1] here.     *)
(* A piece is a record [name, rotation, position], position = <<x, y>>.    *)
(***************************************************************************)
EXTENDS Integers, Sequences, FiniteSets, TLC

GRID_WIDTH == 10
GRID_HEIGHT == 20

None == "None"

SHAPE_ORDER == <<"I", "J", "L", "O", "S", "T", "Z">>

Kinds == {SHAPE_ORDER[i] : i \in 1..Len(SHAPE_ORDER)}

SHAPES ==
  [I |-> << << <<0, 1>>, <<1, 1>>, <<2, 1>>, <<3, 1>> >>,
            << <<2, 0>>, <<2, 1>>, <<2, 2>>, <<2, 3>> >> >>,
   J |-> << << <<0, 0>>, <<0, 1>>, <<1, 1>>, <<2, 1>> >>,
            << <<1, 0>>, <<2, 0>>, <<1, 1>>, <<1, 2>> >>,
            << <<0, 1>>, <<1, 1>>, <<2, 1>>, <<2, 2>> >>,
            << <<1, 0>>, <<1, 1>>, <<0, 2>>, <<1, 2>> >> >>,
   L |-> << << <<2, 0>>, <<0, 1>>, <<1, 1>>, <<2, 1>> >>,
            << <<1, 0>>, <<1, 1>>, <<1, 2>>, <<2, 2>> >>,
            << <<0, 1>>, <<1, 1>>, <<2, 1>>, <<0, 2>> >>,
            << <<0, 0>>, <<1, 0>>, <<1, 1>>, <<1, 2>> >> >>,
   O |-> << << <<1, 0>>, <<2, 0>>, <<1, 1>>, <<2, 1>> >> >>,
   S |-> << << <<1, 0>>, <<2, 0>>, <<0, 1>>, <<1, 1>> >>,
            << <<1, 0>>, <<1, 1>>, <<2, 1>>, <<2, 2>> >> >>,
   T |-> << << <<1, 0>>, <<0, 1>>, <<1, 1>>, <<2, 1>> >>,
            << <<1, 0>>, <<1, 1>>, <<2, 1>>, <<1, 2>> >>,
            << <<0, 1>>, <<1, 1>>, <<2, 1>>, <<1, 2>> >>,
            << <<1, 0>>, <<0, 1>>, <<1, 1>>, <<1, 2>> >> >>,
   Z |-> << << <<0, 0>>, <<1, 0>>, <<1, 1>>, <<2, 1>> >>,
            << <<2, 0>>, <<1, 1>>, <<2, 1>>, <<1, 2>> >> >>]

(* ---------------------------------------------------------------------- *)
(* Tetromino                                                               *)
(* ---------------------------------------------------------------------- *)

\* The dataclass constructor with its defaults: rotation 0 and the anchor
\* (GRID_WIDTH // 2 - 2, 0).
Tetromino(name) ==
  [name |-> name, rotation |-> 0, position |-> <<(GRID_WIDTH \div 2) - 2, 0>>]

\* Tetromino.cells: the four absolute cells, in the order of the offsets.
cells(piece) ==
  LET offsets == SHAPES[piece.name][piece.rotation + 1]
      px == piece.position[1]
      py == piece.position[2]
  IN  [i \in 1..Len(offsets) |-> <<px + offsets[i][1], py + offsets[i][2]>>]

\* Tetromino.moved
moved(piece, dx, dy) ==
  [name |-> piece.name, rotation |-> piece.rotation,
   position |-> <<piece.position[1] + dx, piece.position[2] + dy>>]

\* Tetromino.rotated turning clockwise whatever the direction.
rotated_clockwise_only(piece, direction) ==
  LET rotations == SHAPES[piece.name]
  IN  [name |-> piece.name,
       rotation |-> (piece.rotation + 1) % Len(rotations),
       position |-> piece.position]

\* Tetromino.rotated (python's % yields a result in 0..len-1, as TLA+'s does)
rotated(piece, direction) ==
  LET rotations == SHAPES[piece.name]
  IN  [name |-> piece.name,
       rotation |-> (piece.rotation + direction) % Len(rotations),
       position |-> piece.position]

(* ---------------------------------------------------------------------- *)
(* Board                                                                   *)
(* ---------------------------------------------------------------------- *)

EmptyRow == [x \in 1..GRID_WIDTH |-> None]

create_board == [y \in 1..GRID_HEIGHT |-> EmptyRow]

\* A python list index: a negative index counts from the end.
PyIndex(i, n) == IF i < 0 THEN i + n ELSE i

\* is_valid_position without the "y >= 0 and" of line 108: the board is read
\* for every cell, a negative row counting from the bottom.
RECURSIVE ValidFromUnguarded(_, _, _)
ValidFromUnguarded(b, cs, i) ==
  IF i \notin DOMAIN cs THEN TRUE
  ELSE LET x == cs[i][1]
           y == cs[i][2]
       IN  IF x < 0 \/ x >= GRID_WIDTH \/ y >= GRID_HEIGHT THEN FALSE
           ELSE IF y >= 0 - GRID_HEIGHT
                   /\ b[PyIndex(y, GRID_HEIGHT) + 1][x + 1] # None THEN FALSE
           ELSE ValidFromUnguarded(b, cs, i + 1)

\* The loop of is_valid_position from its i-th cell on: the first test
\* returns False for a cell outside the columns or below the floor, the
\* second reads the board only for a cell with y >= 0.
RECURSIVE ValidFrom(_, _, _)
ValidFrom(b, cs, i) ==
  IF i \notin DOMAIN cs THEN TRUE
  ELSE LET x == cs[i][1]
           y == cs[i][2]
       IN  IF x < 0 \/ x >= GRID_WIDTH \/ y >= GRID_HEIGHT THEN FALSE
           ELSE IF y >= 0 /\ b[y + 1][x + 1] # None THEN FALSE
           ELSE ValidFrom(b, cs, i + 1)

is_valid_position(b, piece) == ValidFrom(b, cells(piece), 1)

\* lock_piece with "0 < y" for the "0 <= y" of line 116: the top row is
\* never written.
RECURSIVE LockFromBelowTop(_, _, _, _)
LockFromBelowTop(b, cs, name, i) ==
  IF i \notin DOMAIN cs THEN b
  ELSE LET x == cs[i][1]
           y == cs[i][2]
       IN  IF 0 < y /\ y < GRID_HEIGHT
           THEN LockFromBelowTop(
                  [b EXCEPT ![y + 1][PyIndex(x, GRID_WIDTH) + 1] = name],
                  cs, name, i + 1)
           ELSE LockFromBelowTop(b, cs, name, i + 1)

\* The loop of lock_piece from its i-th cell on.  The callers lock only
\* pieces that is_valid_position accepted, whose columns are in range.
RECURSIVE LockFrom(_, _, _, _)
LockFrom(b, cs, name, i) ==
  IF i \notin DOMAIN cs THEN b
  ELSE LET x == cs[i][1]
           y == cs[i][2]
       IN  IF 0 <= y /\ y < GRID_HEIGHT
           THEN LockFrom([b EXCEPT ![y + 1][PyIndex(x, GRID_WIDTH) + 1] = name],
                         cs, name, i + 1)
           ELSE LockFrom(b, cs, name, i + 1)

\* lock_piece writing the offsets of the shape, the anchor not added.
lock_piece_relative(b, piece) ==
  LockFrom(b, SHAPES[piece.name][piece.rotation + 1], piece.name, 1)

lock_piece(b, piece) == LockFrom(b, cells(piece), piece.name, 1)

\* "None in row"
HasNone(row) == \E x \in 1..Len(row) : row[x] = None

\* clear_lines appending the empty rows (list.append) rather than inserting
\* them at index 0.
RECURSIVE PadBottom(_)
PadBottom(rows) ==
  IF Len(rows) < GRID_HEIGHT THEN PadBottom(rows \o <<EmptyRow>>) ELSE rows

\* The while loop of clear_lines: empty rows are inserted at the front
\* until the list has GRID_HEIGHT rows again.
RECURSIVE PadTop(_)
PadTop(rows) ==
  IF Len(rows) < GRID_HEIGHT THEN PadTop(<<EmptyRow>> \o rows) ELSE rows

\* clear_lines returning the count and leaving the board as it is (the
\* slice assignment of line 126 lost).
clear_lines_counting_only(b) ==
  [board |-> b, cleared |-> GRID_HEIGHT - Len(SelectSeq(b, HasNone))]

\* clear_lines: the new board and the returned count.
clear_lines(b) ==
  LET remaining_rows == SelectSeq(b, HasNone)
  IN  [board |-> PadTop(remaining_rows),
       cleared |-> GRID_HEIGHT - Len(remaining_rows)]

(* ---------------------------------------------------------------------- *)
(* Piece queue                                                             *)
(* ---------------------------------------------------------------------- *)

\* The outcomes of random.shuffle on a copy of SHAPE_ORDER (next_bag): every
\* arrangement of the seven names.
RECURSIVE Arrangements(_)
Arrangements(S) ==
  IF S = {} THEN {<<>>}
  ELSE UNION {{<<k>> \o rest : rest \in Arrangements(S \ {k})} : k \in S}

AllShuffles == Arrangements(Kinds)

\* spawn_piece refilling a queue that still holds its last name.
spawn_piece_early(q, bag) ==
  LET filled == IF Len(q) <= 1 THEN q \o bag ELSE q
  IN  [name |-> Head(filled), queue |-> Tail(filled)]

\* spawn_piece: bag is what next_bag yields if the queue has to be refilled.
spawn_piece(q, bag) ==
  LET filled == IF q = <<>> THEN q \o bag ELSE q
  IN  [name |-> Head(filled), queue |-> Tail(filled)]

(* ---------------------------------------------------------------------- *)
(* hard_drop and scoring                                                   *)
(* ---------------------------------------------------------------------- *)

\* hard_drop with an if in place of the while loop: one row at most.
hard_drop_one_row(b, piece) ==
  LET candidate == moved(piece, 0, 1)
  IN  IF ~is_valid_position(b, candidate) THEN piece ELSE candidate

RECURSIVE hard_drop(_, _)
hard_drop(b, piece) ==
  LET candidate == moved(piece, 0, 1)
  IN  IF ~is_valid_position(b, candidate) THEN piece
      ELSE hard_drop(b, candidate)

Max(a, b) == IF a >= b THEN a ELSE b

\* calculate_drop_interval with the sign of the level term slipped.
drop_interval_growing(lvl) == Max(100, 700 + (lvl - 1) * 60)

calculate_drop_interval(lvl) == Max(100, 700 - (lvl - 1) * 60)

\* scoring_table.get(cleared_now, 0)
ScoringTable(cleared_now) ==
  CASE cleared_now = 0 -> 0
    [] cleared_now = 1 -> 100
    [] cleared_now = 2 -> 300
    [] cleared_now = 3 -> 500
    [] cleared_now = 4 -> 800
    [] OTHER -> 0

\* update_level_and_score computing the level before line 272 adds the rows
\* just cleared.
update_level_before_adding(sc, lines, cleared_now) ==
  [score |-> sc + ScoringTable(cleared_now),
   lines_cleared |-> lines + cleared_now,
   level |-> Max(1, (lines \div 10) + 1)]

update_level_and_score(sc, lines, cleared_now) ==
  LET new_lines == lines + cleared_now
  IN  [score |-> sc + ScoringTable(cleared_now),
       lines_cleared |-> new_lines,
       level |-> Max(1, (new_lines \div 10) + 1)]

(* ---------------------------------------------------------------------- *)
(* settle_piece and the handlers of main()'s event loop, as functions of   *)
(* a session record                                                        *)
(*   [board, current_piece, next_piece_name, queue, score, lines_cleared,  *)
(*    level, drop_interval, game_over, running]                            *)
(* to which the model adds a note of what the last handler did:            *)
(*   locked     <<p>> if it called settle_piece with the piece p           *)
(*   settled_by "drop" or "space", the handler that called settle_piece    *)
(*   cleared    the count clear_lines returned to settle_piece             *)
(*   kick       <<dx>> if it accepted a rotation with the wall kick dx     *)
(*   rejected   <<key>> if it found the move or rotation of key invalid    *)
(*   locks      the number of settle_piece calls so far                    *)
(* ---------------------------------------------------------------------- *)

\* settle_piece spawning the current piece from the queue and leaving the
\* next-piece name as it was.
settle_piece_without_lookahead(b, current_piece, next_piece_name, q, bag, sc, lines, lvl) ==
  LET locked_board == lock_piece(b, current_piece)
      cl == clear_lines(locked_board)
      upd == update_level_and_score(sc, lines, cl.cleared)
      sp == spawn_piece(q, bag)
      new_piece == Tetromino(sp.name)
  IN  [board |-> cl.board,
       current_piece |-> new_piece,
       next_piece_name |-> next_piece_name,
       queue |-> sp.queue,
       score |-> upd.score,
       lines_cleared |-> upd.lines_cleared,
       level |-> upd.level,
       drop_interval |-> calculate_drop_interval(upd.level),
       game_over |-> ~is_valid_position(cl.board, new_piece),
       cleared |-> cl.cleared]

\* settle_piece, lines 293-301.  bag is the shuffle next_bag produces if
\* spawn_piece finds the queue empty.
settle_piece(b, current_piece, next_piece_name, q, bag, sc, lines, lvl) ==
  LET locked_board == lock_piece(b, current_piece)
      cl == clear_lines(locked_board)
      upd == update_level_and_score(sc, lines, cl.cleared)
      new_piece == Tetromino(next_piece_name)
      sp == spawn_piece(q, bag)
  IN  [board |-> cl.board,
       current_piece |-> new_piece,
       next_piece_name |-> sp.name,
       queue |-> sp.queue,
       score |-> upd.score,
       lines_cleared |-> upd.lines_cleared,
       level |-> upd.level,
       drop_interval |-> calculate_drop_interval(upd.level),
       game_over |-> ~is_valid_position(cl.board, new_piece),
       cleared |-> cl.cleared]

\* The assignment of settle_piece's result without drop_interval (the
\* fifth target of lines 335-342 and 385-392 lost).
SettledKeepingInterval(s, piece, bag, handler) ==
  LET r == settle_piece(s.board, piece, s.next_piece_name, s.queue, bag,
                        s.score, s.lines_cleared, s.level)
  IN  [s EXCEPT !.board = r.board,
                !.current_piece = r.current_piece,
                !.next_piece_name = r.next_piece_name,
                !.queue = r.queue,
                !.score = r.score,
                !.lines_cleared = r.lines_cleared,
                !.level = r.level,
                !.game_over = r.game_over,
                !.running = IF r.game_over THEN FALSE ELSE s.running,
                !.locked = <<piece>>,
                !.settled_by = handler,
                !.cleared = r.cleared,
                !.kick = <<>>,
                !.rejected = <<>>,
                !.locks = s.locks + 1]

\* The assignment of settle_piece's result in main() (lines 335-356 and
\* 385-406): on game over running is cleared and the event loop is left.
Settled(s, piece, bag, handler) ==
  LET r == settle_piece(s.board, piece, s.next_piece_name, s.queue, bag,
                        s.score, s.lines_cleared, s.level)
  IN  [s EXCEPT !.board = r.board,
                !.current_piece = r.current_piece,
                !.next_piece_name = r.next_piece_name,
                !.queue = r.queue,
                !.score = r.score,
                !.lines_cleared = r.lines_cleared,
                !.level = r.level,
                !.drop_interval = r.drop_interval,
                !.game_over = r.game_over,
                !.running = IF r.game_over THEN FALSE ELSE s.running,
                !.locked = <<piece>>,
                !.settled_by = handler,
                !.cleared = r.cleared,
                !.kick = <<>>,
                !.rejected = <<>>,
                !.locks = s.locks + 1]

\* A handler that replaces the current piece and does nothing else.
Stepped(s, piece) ==
  [s EXCEPT !.current_piece = piece, !.locked = <<>>, !.settled_by = "",
            !.cleared = 0, !.kick = <<>>, !.rejected = <<>>]

\* A handler that finds its move invalid and does nothing.
Rejected(s, key) ==
  [s EXCEPT !.locked = <<>>, !.settled_by = "", !.cleared = 0,
            !.kick = <<>>, !.rejected = <<key>>]

\* The DROP_EVENT handler handing the moved piece to settle_piece.
OnDropEventLower(s, bag) ==
  LET m == moved(s.current_piece, 0, 1)
  IN  IF is_valid_position(s.board, m) THEN Stepped(s, m)
      ELSE Settled(s, m, bag, "drop")

\* The DROP_EVENT handler leaving a blocked piece where it is, as K_DOWN
\* does.
OnDropEventWaiting(s, bag) ==
  LET m == moved(s.current_piece, 0, 1)
  IN  IF is_valid_position(s.board, m) THEN Stepped(s, m)
      ELSE Rejected(s, "down")

\* DROP_EVENT, lines 330-356
OnDropEvent(s, bag) ==
  LET m == moved(s.current_piece, 0, 1)
  IN  IF is_valid_position(s.board, m) THEN Stepped(s, m)
      ELSE Settled(s, s.current_piece, bag, "drop")

\* K_LEFT without the test of line 362.
OnLeftUnchecked(s) == Stepped(s, moved(s.current_piece, -1, 0))

\* K_LEFT, lines 360-363
OnLeft(s) ==
  LET m == moved(s.current_piece, -1, 0)
  IN  IF is_valid_position(s.board, m) THEN Stepped(s, m)
      ELSE Rejected(s, "left")

\* K_RIGHT, lines 364-367
OnRight(s) ==
  LET m == moved(s.current_piece, 1, 0)
  IN  IF is_valid_position(s.board, m) THEN Stepped(s, m)
      ELSE Rejected(s, "right")

\* The K_DOWN handler settling a blocked piece as the DROP_EVENT handler does.
OnDownSettling(s) ==
  LET m == moved(s.current_piece, 0, 1)
  IN  IF is_valid_position(s.board, m) THEN Stepped(s, m)
      ELSE Settled(s, s.current_piece, SHAPE_ORDER, "drop")

\* K_DOWN, lines 368-371
OnDown(s) ==
  LET m == moved(s.current_piece, 0, 1)
  IN  IF is_valid_position(s.board, m) THEN Stepped(s, m)
      ELSE Rejected(s, "down")

\* The offsets with the wide kicks first.
KICKS_WideFirst == <<-2, 2, -1, 1>>

\* The offsets of the wall-kick loop, line 378
KICKS == <<-1, 1, -2, 2>>

\* The wall-kick loop of lines 378-382 from its i-th offset on: the offset
\* of the first valid kicked piece, <<>> if the loop ends without one.
RECURSIVE KickFrom(_, _, _)
KickFrom(b, rot, i) ==
  IF i > Len(KICKS) THEN <<>>
  ELSE IF is_valid_position(b, moved(rot, KICKS[i], 0)) THEN <<KICKS[i]>>
  ELSE KickFrom(b, rot, i + 1)

\* K_UP, lines 372-382
OnUp(s) ==
  LET rot == rotated(s.current_piece, 1)
      k == KickFrom(s.board, rot, 1)
  IN  IF is_valid_position(s.board, rot) THEN Stepped(s, rot)
      ELSE IF k # <<>>
      THEN [Stepped(s, moved(rot, k[1], 0)) EXCEPT !.kick = k]
      ELSE Rejected(s, "up")

\* K_SPACE dropping the piece and leaving it unsettled.
OnSpaceWithoutSettle(s, bag) ==
  Stepped(s, hard_drop(s.board, s.current_piece))

\* K_SPACE, lines 383-406
OnSpace(s, bag) ==
  Settled(s, hard_drop(s.board, s.current_piece), bag, "space")

\* QUIT and K_ESCAPE, lines 328-329 and 358-359
OnQuit(s) == [Stepped(s, s.current_piece) EXCEPT !.running = FALSE]

\* main(), lines 311-321: the session before the first event.
NewSession(bag) ==
  LET first == spawn_piece(<<>>, bag)
      second == spawn_piece(first.queue, bag)
  IN  [board |-> create_board,
       current_piece |-> Tetromino(first.name),
       next_piece_name |-> second.name,
       queue |-> second.queue,
       score |-> 0,
       lines_cleared |-> 0,
       level |-> 1,
       drop_interval |-> calculate_drop_interval(1),
       game_over |-> FALSE,
       running |-> TRUE,
       locked |-> <<>>,
       settled_by |-> "",
       cleared |-> 0,
       kick |-> <<>>,
       rejected |-> <<>>,
       locks |-> 0]

(* ---------------------------------------------------------------------- *)
(* The session: main()'s locals as variables                               *)
(* ---------------------------------------------------------------------- *)

VARIABLES board, current_piece, next_piece_name, queue, score,
          lines_cleared, level, drop_interval, game_over, running,
          pc,       \* "loop": inside the while loop of main(); "done": after it
          locked, settled_by, cleared, kick, rejected, locks,
          played,   \* the number of settle_piece calls since Init
          arg, ret, \* the arguments and the result of a function called alone
          hist      \* what the draws from the queue have been so far, or
                    \* the DROP_EVENTs counted: those of the current piece
                    \* and those of the piece the last event locked

vars == <<board, current_piece, next_piece_name, queue, score,
          lines_cleared, level, drop_interval, game_over, running,
          pc, locked, settled_by, cleared, kick, rejected, locks, played,
          arg, ret, hist>>

\* The bound of the exploration: the locks played after the opening.
MaxLocks == 1

\* The shuffles a session draws its bags from.
Shuffles == {SHAPE_ORDER, <<"O", "S", "T", "Z", "I", "J", "L">>}

\* The session as a record, and the record as the next state.
Session ==
  [board |-> board, current_piece |-> current_piece,
   next_piece_name |-> next_piece_name, queue |-> queue, score |-> score,
   lines_cleared |-> lines_cleared, level |-> level,
   drop_interval |-> drop_interval, game_over |-> game_over,
   running |-> running, locked |-> locked, settled_by |-> settled_by,
   cleared |-> cleared, kick |-> kick, rejected |-> rejected,
   locks |-> locks]

Assigns(s) ==
  /\ board' = s.board
  /\ current_piece' = s.current_piece
  /\ next_piece_name' = s.next_piece_name
  /\ queue' = s.queue
  /\ score' = s.score
  /\ lines_cleared' = s.lines_cleared
  /\ level' = s.level
  /\ drop_interval' = s.drop_interval
  /\ game_over' = s.game_over
  /\ running' = s.running
  /\ locked' = s.locked
  /\ settled_by' = s.settled_by
  /\ cleared' = s.cleared
  /\ kick' = s.kick
  /\ rejected' = s.rejected
  /\ locks' = s.locks
  /\ played' = played + (s.locks - locks)
  /\ pc' = pc

Becomes(s) == Assigns(s) /\ UNCHANGED <<arg, ret, hist>>

(* An opening is a play of the first pieces of a session: for each piece   *)
(* a pair <<r, dx>>, r times K_UP, then |dx| times K_LEFT (dx < 0) or      *)
(* K_RIGHT (dx > 0), then K_SPACE.  A session starts from the state the    *)
(* handlers themselves produce for one of these plays, so that the         *)
(* exploration also covers a stack about to reach the spawn rows and a     *)
(* board about to complete a row.                                          *)
RECURSIVE Press(_, _, _)
Press(s, key, n) ==
  IF n = 0 \/ s.game_over THEN s
  ELSE Press(CASE key = "up" -> OnUp(s)
               [] key = "left" -> OnLeft(s)
               [] key = "right" -> OnRight(s), key, n - 1)

Place(s, p, bag) ==
  LET turned == Press(s, "up", p[1])
      shifted == IF p[2] < 0 THEN Press(turned, "left", -p[2])
                 ELSE Press(turned, "right", p[2])
  IN  IF shifted.game_over THEN shifted ELSE OnSpace(shifted, bag)

RECURSIVE Run(_, _, _)
Run(s, opening, bag) ==
  IF opening = <<>> \/ s.game_over THEN s
  ELSE Run(Place(s, Head(opening), bag), Tail(opening), bag)

\* Ten pieces dropped from the spawn columns.
Stack == [i \in 1..10 |-> <<0, 0>>]

\* Twenty-six locks with the bag IJLOSTZ that clear nine rows one at a
\* time: the queue is empty, the current piece is T, and the bottom row
\* lacks columns 6-8.
NineLines ==
  << <<0, 0>>, <<2, 2>>, <<0, -3>>, <<0, 4>>, <<0, 0>>, <<0, 4>>, <<1, 2>>,
     <<0, -3>>, <<0, 0>>, <<1, -4>>, <<0, -3>>, <<1, 4>>, <<0, 1>>, <<0, 2>>,
     <<0, -2>>, <<2, 4>>, <<2, -3>>, <<0, -1>>, <<0, -2>>, <<1, -4>>, <<0, 1>>,
     <<0, 3>>, <<0, -2>>, <<0, 4>>, <<0, 0>>, <<0, -1>> >>

\* The sessions explored: a new session for every shuffle, and the two
\* openings played with the bag IJLOSTZ.
Starts ==
  {<<bag, <<>> >> : bag \in Shuffles}
    \cup {<<SHAPE_ORDER, opening>> : opening \in {Stack, NineLines}}

Init ==
  \E start \in Starts :
    LET s == Run(NewSession(start[1]), start[2], start[1])
    IN  /\ board = s.board
        /\ current_piece = s.current_piece
        /\ next_piece_name = s.next_piece_name
        /\ queue = s.queue
        /\ score = s.score
        /\ lines_cleared = s.lines_cleared
        /\ level = s.level
        /\ drop_interval = s.drop_interval
        /\ game_over = s.game_over
        /\ running = s.running
        /\ locked = s.locked
        /\ settled_by = s.settled_by
        /\ cleared = s.cleared
        /\ kick = s.kick
        /\ rejected = s.rejected
        /\ locks = s.locks
        /\ played = 0
        /\ pc = "loop"
        /\ arg = <<>>
        /\ ret = <<>>
        /\ hist = <<>>

\* The for loop without the break of lines 355-356 and 405-406: after a
\* game over it goes on with the events still pending in its batch.
AcceptingPending ==
  pc = "loop" /\ (game_over \/ (running /\ played < MaxLocks))

\* The for loop takes another event: not after the break that follows a
\* game over and, in this model, not after a QUIT or K_ESCAPE (taken to be
\* the last event of its batch) or after MaxLocks locks.
Accepting == pc = "loop" /\ running /\ ~game_over /\ played < MaxLocks

\* The shuffles settle_piece may meet: next_bag is called, and its outcome
\* matters, only if spawn_piece finds the queue empty.
Refills == IF queue = <<>> THEN Shuffles ELSE {SHAPE_ORDER}

DropEvent ==
  /\ Accepting
  /\ \E bag \in Refills : Becomes(OnDropEvent(Session, bag))

KeyLeft ==
  /\ Accepting
  /\ Becomes(OnLeft(Session))

KeyRight ==
  /\ Accepting
  /\ Becomes(OnRight(Session))

KeyDown ==
  /\ Accepting
  /\ Becomes(OnDown(Session))

KeyUp ==
  /\ Accepting
  /\ Becomes(OnUp(Session))

KeySpace ==
  /\ Accepting
  /\ \E bag \in Refills : Becomes(OnSpace(Session, bag))

Quit ==
  /\ Accepting
  /\ Becomes(OnQuit(Session))

\* The while condition fails once running is False: game_over_screen and
\* pygame.quit() follow (lines 410-411).
Exit ==
  /\ pc = "loop"
  /\ ~running
  /\ pc' = "done"
  /\ UNCHANGED <<board, current_piece, next_piece_name, queue, score,
                 lines_cleared, level, drop_interval, game_over, running,
                 locked, settled_by, cleared, kick, rejected, locks, played,
                 arg, ret, hist>>

Next ==
  \/ DropEvent
  \/ KeyLeft
  \/ KeyRight
  \/ KeyDown
  \/ KeyUp
  \/ KeySpace
  \/ Quit
  \/ Exit

Spec == Init /\ [][Next]_vars

(* ---------------------------------------------------------------------- *)
(* Functions called alone: the arguments are drawn in Init, the one action *)
(* calls the function and keeps what it returned.                          *)
(* ---------------------------------------------------------------------- *)

\* The session's variables where a specification does not use them.
NoSession ==
  LET s == NewSession(SHAPE_ORDER)
  IN  /\ board = s.board
      /\ current_piece = s.current_piece
      /\ next_piece_name = s.next_piece_name
      /\ score = s.score
      /\ lines_cleared = s.lines_cleared
      /\ level = s.level
      /\ drop_interval = s.drop_interval
      /\ game_over = s.game_over
      /\ running = s.running
      /\ locked = s.locked
      /\ settled_by = s.settled_by
      /\ cleared = s.cleared
      /\ kick = s.kick
      /\ rejected = s.rejected
      /\ locks = s.locks
      /\ played = 0

SessionUnchanged ==
  UNCHANGED <<board, current_piece, next_piece_name, score, lines_cleared,
              level, drop_interval, game_over, running, locked, settled_by,
              cleared, kick, rejected, locks, played>>

Returned(value) ==
  /\ pc = "call"
  /\ ret' = value
  /\ pc' = "returned"
  /\ SessionUnchanged
  /\ UNCHANGED <<queue, arg, hist>>

(* is_valid_position(board, piece) *)

\* How far outside the grid the anchors of the pieces tried lie.
Margin == 2

Anchors ==
  {<<x, y>> : x \in (0 - Margin)..(GRID_WIDTH + Margin),
              y \in (0 - Margin)..(GRID_HEIGHT + Margin)}

Pieces ==
  {p \in [name : Kinds, rotation : 0..3, position : Anchors] :
     p.rotation < Len(SHAPES[p.name])}

\* Boards of sessions: the empty one, the stack of ten and of eleven
\* dropped pieces, and the board of the nine-lines opening.
PlayedBoards ==
  {Run(NewSession(SHAPE_ORDER), opening, SHAPE_ORDER).board :
     opening \in {<<>>, Stack, Stack \o << <<0, 0>> >>, NineLines}}

InitValid ==
  /\ NoSession
  /\ queue = <<>>
  /\ hist = <<>>
  /\ pc = "call"
  /\ arg \in PlayedBoards \X Pieces
  /\ ret = <<>>

CallIsValidPosition == Returned(is_valid_position(arg[1], arg[2]))

NextValid == CallIsValidPosition

SpecValid == InitValid /\ [][NextValid]_vars

\* The condition the claim C1 puts on one cell, with the claim's numbers.
CellAccepted(b, c) ==
  /\ 0 <= c[1]
  /\ c[1] < 10
  /\ c[2] < 20
  /\ (c[2] < 0 \/ b[c[2] + 1][c[1] + 1] = None)

\* C1: is_valid_position returns true if and only if every occupied cell
\* (x, y) of the piece has 0 <= x < 10, y < 20 and (y < 0 or board[y][x]
\* empty): false for any cell left or right of the columns or below the
\* floor, and a cell above the top row is not compared with the board.
C1_ValidIffEveryCellAccepted ==
  pc = "returned" =>
    (ret <=> \A i \in 1..4 : CellAccepted(arg[1], cells(arg[2])[i]))

\* C1 witness: a piece was accepted that has a cell above the top row, in
\* a column whose bottom cell (python's board[-1][x]) is occupied.
C1_Witness ==
  /\ pc = "returned"
  /\ ret = TRUE
  /\ \E i \in 1..4 :
       LET c == cells(arg[2])[i]
       IN  c[2] = -1 /\ arg[1][GRID_HEIGHT][c[1] + 1] # None

(* clear_lines(board) *)

\* The number of full rows of the boards tried.
MaxFull == 2

\* Row y of a board tried: full, or with one empty cell; two rows differ in
\* the kind of their cells or in the place of the empty cell.
FullRow(y) == [x \in 1..GRID_WIDTH |-> SHAPE_ORDER[(y % 7) + 1]]

PartialRow(y) ==
  [x \in 1..GRID_WIDTH |->
     IF x = (y % GRID_WIDTH) + 1 THEN None ELSE SHAPE_ORDER[(y % 7) + 1]]

\* The board with the rows of F full, the other rows above row top empty
\* and the other rows from row top on partial.
BoardWith(F, top) ==
  [r \in 1..GRID_HEIGHT |->
     IF (r - 1) \in F THEN FullRow(r - 1)
     ELSE IF r - 1 < top THEN EmptyRow
     ELSE PartialRow(r - 1)]

ClearBoards ==
  {BoardWith(F, top) :
     F \in {G \in SUBSET (0..(GRID_HEIGHT - 1)) : Cardinality(G) <= MaxFull}
             \cup {0..(GRID_HEIGHT - 1)},
     top \in {0, 4, GRID_HEIGHT}}

InitClear ==
  /\ NoSession
  /\ queue = <<>>
  /\ hist = <<>>
  /\ pc = "call"
  /\ arg \in ClearBoards
  /\ ret = <<>>

\* The call keeps the count returned and the board as the call leaves it.
CallClearLines == Returned(clear_lines(arg))

NextClear == CallClearLines

SpecClear == InitClear /\ [][NextClear]_vars

\* The rows of a board without an empty cell, numbered from 0 at the top.
FullRows(b) == {y \in 0..19 : \A x \in 1..10 : b[y + 1][x] # None}

\* C2: on a board with k full rows clear_lines returns k and leaves k empty
\* rows on top, followed by the rows that were not full, each moved down by
\* the number of full rows that were below it (so in their order, and none
\* of them removed).
C2_ClearRemovesExactlyFullRows ==
  pc = "returned" =>
    LET F == FullRows(arg)
        k == Cardinality(F)
    IN  /\ ret.cleared = k
        /\ Len(ret.board) = 20
        /\ \A y \in 0..(k - 1) : \A x \in 1..10 : ret.board[y + 1][x] = None
        /\ \A y \in (0..19) \ F :
             ret.board[y + 1 + Cardinality({f \in F : f > y})] = arg[y + 1]

\* C2 witness: a board with exactly rows 3 and 5 full and every other row
\* partial was cleared and 2 was returned.
C2_Witness ==
  /\ pc = "returned"
  /\ FullRows(arg) = {3, 5}
  /\ \A y \in (0..19) \ {3, 5} : arg[y + 1] # EmptyRow
  /\ ret.cleared = 2
  /\ ret.board[1] = EmptyRow
  /\ ret.board[2] = EmptyRow

(* update_level_and_score(score, lines_cleared, cleared_now) followed by   *)
(* calculate_drop_interval(level), as in lines 295-296 of settle_piece     *)

\* The largest number of lines cleared before the call.
MaxLinesBefore == 112

ScoreArgs ==
  {0, 100, 1000, 99900} \X (0..MaxLinesBefore) \X ((0 - 1)..5)

InitScore ==
  /\ NoSession
  /\ queue = <<>>
  /\ hist = <<>>
  /\ pc = "call"
  /\ arg \in ScoreArgs
  /\ ret = <<>>

CallUpdateLevelAndScore ==
  LET u == update_level_and_score(arg[1], arg[2], arg[3])
  IN  Returned([score |-> u.score, lines_cleared |-> u.lines_cleared,
                level |-> u.level,
                drop_interval |-> calculate_drop_interval(u.level)])

NextScore == CallUpdateLevelAndScore

SpecScore == InitScore /\ [][NextScore]_vars

\* C5: the score grows by 0, 100, 300, 500, 800 for 0, 1, 2, 3, 4 rows
\* cleared and by nothing for another count; the count is added to the
\* lines; the level is the one whose ten lines hold the new total (1 below
\* that); the interval falls by 60 a level from 700 and stays at 100 from
\* level 11 on; score 1000, lines 9, 2 rows give 1300, 11, level 2, 640.
C5_ScoringPolicy ==
  pc = "returned" =>
    LET c == arg[3]
        n == arg[2] + c
    IN  /\ (c = 0 => ret.score = arg[1])
        /\ (c = 1 => ret.score = arg[1] + 100)
        /\ (c = 2 => ret.score = arg[1] + 300)
        /\ (c = 3 => ret.score = arg[1] + 500)
        /\ (c = 4 => ret.score = arg[1] + 800)
        /\ (c \notin 0..4 => ret.score = arg[1])
        /\ ret.lines_cleared = n
        /\ ret.level >= 1
        /\ (n >= 0 => 10 * (ret.level - 1) <= n /\ n < 10 * ret.level)
        /\ (n < 0 => ret.level = 1)
        /\ (ret.level <= 11 => ret.drop_interval = 700 - 60 * (ret.level - 1))
        /\ (ret.level >= 11 => ret.drop_interval = 100)
        /\ (arg = <<1000, 9, 2>> =>
              ret = [score |-> 1300, lines_cleared |-> 11, level |-> 2,
                     drop_interval |-> 640])

\* C5 witness: the call with score 1000, lines 9 and 2 rows cleared has
\* returned.
C5_Witness ==
  /\ pc = "returned"
  /\ arg = <<1000, 9, 2>>
  /\ ret.score = 1300
  /\ ret.level = 2
  /\ ret.drop_interval = 640

(* spawn_piece(queue, rng), called again and again on a queue that starts  *)
(* empty (line 314)                                                        *)

\* The number of draws followed.
MaxDraws == 14

\* hist: n, the number of draws; count[k], how often k was drawn; seen[k],
\* how often k was drawn among the draws 7m+1.. of the bag being drawn;
\* last and run, the name drawn last and how many times in a row it has
\* just been drawn; refilled_at, the lengths the queue had when a draw
\* refilled it.
InitQueue ==
  /\ NoSession
  /\ queue = <<>>
  /\ hist = [n |-> 0, count |-> [k \in Kinds |-> 0],
             seen |-> [k \in Kinds |-> 0], last |-> None, run |-> 0,
             refilled_at |-> {}]
  /\ pc = "draw"
  /\ arg = <<>>
  /\ ret = <<>>

Draw ==
  /\ pc = "draw"
  /\ hist.n < MaxDraws
  /\ \E bag \in (IF queue = <<>> THEN AllShuffles ELSE {SHAPE_ORDER}) :
       LET sp == spawn_piece(queue, bag)
           fresh == hist.n % Len(SHAPE_ORDER) = 0
       IN  /\ queue' = sp.queue
           /\ ret' = sp.name
           /\ hist' =
                [n |-> hist.n + 1,
                 count |-> [hist.count EXCEPT ![sp.name] = @ + 1],
                 seen |-> IF fresh
                          THEN [k \in Kinds |-> IF k = sp.name THEN 1 ELSE 0]
                          ELSE [hist.seen EXCEPT ![sp.name] = @ + 1],
                 last |-> sp.name,
                 run |-> IF sp.name = hist.last THEN hist.run + 1 ELSE 1,
                 refilled_at |->
                   IF Len(sp.queue) = Len(queue) - 1 THEN hist.refilled_at
                   ELSE hist.refilled_at \cup {Len(queue)}]
  /\ SessionUnchanged
  /\ UNCHANGED <<pc, arg>>

NextQueue == Draw

SpecQueue == InitQueue /\ [][NextQueue]_vars

\* C4: whatever the shuffles, no kind is drawn twice among the draws
\* 7m+1..7m+7, and after 7m draws every kind has been drawn exactly m times
\* (so each of these groups of seven holds every kind once); no kind is
\* drawn three times in a row; the queue is refilled only when it is empty.
C4_EachKindOncePerBag ==
  /\ \A k \in Kinds : hist.seen[k] <= 1
  /\ (hist.n % 7 = 0 => \A k \in Kinds : hist.count[k] = hist.n \div 7)
  /\ hist.run <= 2
  /\ hist.refilled_at \subseteq {0}

\* C4 witness: fourteen draws have been made, the queue was refilled and
\* is empty again, and every kind has been drawn twice.
C4_Witness ==
  /\ hist.n = 14
  /\ queue = <<>>
  /\ hist.refilled_at = {0}
  /\ \A k \in Kinds : hist.count[k] = 2

(* ---------------------------------------------------------------------- *)
(* The session (Spec): what its handlers do, step by step                  *)
(* ---------------------------------------------------------------------- *)

\* Every cell of the piece is in a column of the grid, not below the floor
\* and, unless above the top row, empty on the board b.
Fits(b, piece) == \A i \in 1..4 : CellAccepted(b, cells(piece)[i])

Shifted(piece, dx, dy) ==
  [piece EXCEPT !.position = <<piece.position[1] + dx, piece.position[2] + dy>>]

\* Lock-and-Advance of the piece p is a step from this state to the next:
\* p is locked into the board and the full rows are cleared, score, lines,
\* level and interval follow from the rows cleared, the next kind becomes
\* the current piece at the spawn anchor, the front of the queue (of a
\* fresh bag if the queue is empty) becomes the next kind, and the game is
\* over exactly if the new piece does not fit the new board.
LockAndAdvance(p) ==
  LET after == clear_lines(lock_piece(board, p))
  IN  /\ locked' = <<p>>
      /\ locks' = locks + 1
      /\ board' = after.board
      /\ cleared' = after.cleared
      /\ cleared' = Cardinality(FullRows(lock_piece(board, p)))
      /\ lines_cleared' = lines_cleared + cleared'
      /\ score' = score + ScoringTable(cleared')
      /\ level' = Max(1, (lines_cleared' \div 10) + 1)
      /\ drop_interval' = Max(100, 700 - (level' - 1) * 60)
      /\ current_piece' =
           [name |-> next_piece_name, rotation |-> 0, position |-> <<3, 0>>]
      /\ IF queue # <<>>
         THEN next_piece_name' = Head(queue) /\ queue' = Tail(queue)
         ELSE (<<next_piece_name'>> \o queue') \in AllShuffles
      /\ game_over' = ~Fits(board', current_piece')

\* C3: every call of settle_piece is a Lock-and-Advance of the piece it
\* was given: lock, clear, score, spawn the kind that was next at (3, 0)
\* with rotation 0, draw the new next kind from the front of the queue, and
\* game over if and only if the new piece does not fit the board as locked
\* and cleared.
C3_SettleIsLockAndAdvance ==
  [][locks' # locks => LockAndAdvance(locked'[1])]_vars

\* C3 witness: a piece was settled with an empty queue: a row was cleared,
\* the Z that was next is the current piece and six names of a fresh bag
\* are left in the queue.
C3_Witness ==
  /\ locked # <<>>
  /\ played = 1
  /\ cleared = 1
  /\ Len(queue) = 6
  /\ ~game_over
  /\ current_piece = [name |-> "Z", rotation |-> 0, position |-> <<3, 0>>]

\* C6: score, lines and level never decrease and the drop interval never
\* increases from one state to the next, and in every state score >= 0,
\* lines >= 0, level >= 1 and 100 <= drop interval <= 700.
C6_ScoreLinesLevelMonotonic ==
  /\ [](/\ score >= 0
        /\ lines_cleared >= 0
        /\ level >= 1
        /\ 100 <= drop_interval
        /\ drop_interval <= 700)
  /\ [][/\ score' >= score
        /\ lines_cleared' >= lines_cleared
        /\ level' >= level
        /\ drop_interval' <= drop_interval]_vars

\* C6 witness: the tenth line was just cleared: level 2 and interval 640
\* after level 1 and 700.
C6_Witness ==
  /\ cleared = 1
  /\ lines_cleared = 10
  /\ score = 1000
  /\ level = 2
  /\ drop_interval = 640

\* What K_UP may change.
RotateKeeps ==
  /\ UNCHANGED <<board, score, lines_cleared, level, drop_interval,
                 next_piece_name, queue, game_over, running, locks>>
  /\ current_piece'.name = current_piece.name
  /\ current_piece'.position[2] = current_piece.position[2]

\* C7: K_UP replaces the current piece by the piece turned clockwise if
\* that fits, else by the turned piece shifted by the first of -1, +1, -2,
\* +2 columns that fits, else leaves the session as it is; it never
\* changes the kind, the anchor's row, the board, the score, the lines, the
\* level or the next kind.
C7_RotateWithWallKick ==
  [][KeyUp =>
       LET turned ==
             [current_piece EXCEPT
                !.rotation = (@ + 1) % Len(SHAPES[current_piece.name])]
       IN  /\ RotateKeeps
           /\ current_piece' =
                IF Fits(board, turned) THEN turned
                ELSE IF Fits(board, Shifted(turned, -1, 0))
                THEN Shifted(turned, -1, 0)
                ELSE IF Fits(board, Shifted(turned, 1, 0))
                THEN Shifted(turned, 1, 0)
                ELSE IF Fits(board, Shifted(turned, -2, 0))
                THEN Shifted(turned, -2, 0)
                ELSE IF Fits(board, Shifted(turned, 2, 0))
                THEN Shifted(turned, 2, 0)
                ELSE current_piece]_vars

\* C7 witness: a rotation was accepted with the kick -1 where the kick -2
\* fits as well.
C7_Witness ==
  /\ kick = <<-1>>
  /\ Fits(board, Shifted(current_piece, -1, 0))

\* C8: K_SPACE locks the current piece k rows lower, k the largest number
\* below 20 such that the piece fits moved down by every j in 0..k, and
\* performs Lock-and-Advance on it in the same step.
C8_HardDropLocksLowest ==
  [][settled_by' = "space" /\ KeySpace =>
       \E k \in 0..19 :
         /\ ~Fits(board, Shifted(current_piece, 0, k + 1))
         /\ \A j \in 0..k : Fits(board, Shifted(current_piece, 0, j))
         /\ LockAndAdvance(Shifted(current_piece, 0, k))]_vars

\* C8 witness: K_SPACE locked a piece that it had dropped to the floor.
C8_Witness ==
  /\ settled_by = "space"
  /\ locked # <<>>
  /\ locked[1].position[2] >= 17
  /\ played = 1

\* C9: DROP_EVENT replaces the current piece by the piece one row lower if
\* that fits, and changes nothing else; if it does not fit,
\* Lock-and-Advance is performed on the current piece where it is.
C9_GravityTick ==
  [][DropEvent =>
       IF Fits(board, Shifted(current_piece, 0, 1))
       THEN /\ current_piece' = Shifted(current_piece, 0, 1)
            /\ UNCHANGED <<board, score, lines_cleared, level, drop_interval,
                           next_piece_name, queue, game_over, locks>>
       ELSE LockAndAdvance(current_piece)]_vars

\* C9 witness: DROP_EVENT locked the piece that K_SPACE would have locked in
\* its place.
C9_Witness ==
  /\ settled_by = "drop"
  /\ locked # <<>>
  /\ played = 1
  /\ locked[1].position[2] >= 17

\* A move by (dx, dy): the piece is replaced if and only if the moved piece
\* fits; nothing else of the session changes.
MoveOrNothing(dx, dy) ==
  /\ current_piece' =
       IF Fits(board, Shifted(current_piece, dx, dy))
       THEN Shifted(current_piece, dx, dy)
       ELSE current_piece
  /\ UNCHANGED <<board, score, lines_cleared, level, drop_interval,
                 next_piece_name, queue, game_over, running, locks, pc>>

\* C10: K_LEFT, K_RIGHT and K_DOWN move the current piece by (-1, 0),
\* (+1, 0), (0, +1) if and only if the moved piece fits; otherwise the
\* session is unchanged; a blocked K_DOWN does not lock, and none of the
\* three changes the board or the score.
C10_MovesOrNoOps ==
  [][/\ (KeyLeft => MoveOrNothing(-1, 0))
     /\ (KeyRight => MoveOrNothing(1, 0))
     /\ (KeyDown => MoveOrNothing(0, 1))]_vars

\* C10 witness: K_DOWN was rejected for a piece resting on the floor, which
\* is still the current piece and is not locked.
C10_Witness ==
  /\ rejected = <<"down">>
  /\ locked = <<>>
  /\ locks = 0
  /\ ~Fits(board, Shifted(current_piece, 0, 1))
  /\ Fits(board, current_piece)

\* C11: once the game-over flag is set, no step changes the board, the
\* current piece, the next kind, the queue, the score, the lines or the
\* level, and the flag stays set.
C11_GameOverIsTerminal ==
  [][game_over =>
       UNCHANGED <<board, current_piece, next_piece_name, queue, score,
                   lines_cleared, level, game_over>>]_vars

\* C11 witness: a lock of this exploration ended the game, and main() has
\* left its loop.
C11_Witness ==
  /\ game_over
  /\ played = 1
  /\ ~running
  /\ pc = "done"

(* ---------------------------------------------------------------------- *)
(* A new session in which the player only ever presses K_SPACE (SpecDrops) *)
(* ---------------------------------------------------------------------- *)

\* The shuffles of these sessions: SHAPE_ORDER turned so that every kind
\* comes first once.
Cycles ==
  {[i \in 1..Len(SHAPE_ORDER) |->
      SHAPE_ORDER[((i + k - 1) % Len(SHAPE_ORDER)) + 1]] :
     k \in 0..(Len(SHAPE_ORDER) - 1)}

InitDrops ==
  \E bag \in Cycles :
    LET s == NewSession(bag)
    IN  /\ board = s.board
        /\ current_piece = s.current_piece
        /\ next_piece_name = s.next_piece_name
        /\ queue = s.queue
        /\ score = s.score
        /\ lines_cleared = s.lines_cleared
        /\ level = s.level
        /\ drop_interval = s.drop_interval
        /\ game_over = s.game_over
        /\ running = s.running
        /\ locked = s.locked
        /\ settled_by = s.settled_by
        /\ cleared = s.cleared
        /\ kick = s.kick
        /\ rejected = s.rejected
        /\ locks = s.locks
        /\ played = 0
        /\ pc = "loop"
        /\ arg = <<>>
        /\ ret = <<>>
        /\ hist = <<>>

\* K_SPACE is the only event of every batch, until the loop is left.
HardDropOnly ==
  /\ pc = "loop"
  /\ running
  /\ ~game_over
  /\ \E bag \in (IF queue = <<>> THEN Cycles ELSE {SHAPE_ORDER}) :
       Becomes(OnSpace(Session, bag))

NextDrops ==
  \/ HardDropOnly
  \/ Exit

\* The player keeps pressing K_SPACE for as long as the session is played.
\* Every K_SPACE ends in a call of settle_piece (lines 383-395), so that a
\* player who keeps pressing keeps the count of locks growing; the fairness
\* is stated on that count, which is no stronger and takes no evaluation
\* of the handler to decide.
AnotherDrop == pc = "loop" /\ running /\ ~game_over /\ locks' = locks + 1

SpecDrops == InitDrops /\ [][NextDrops]_vars /\ WF_locks(AnotherDrop)

\* C12: a new session in which only K_SPACE is pressed, again and again,
\* reaches game over: every step of the session while it is played is a
\* drop that locks one more piece, game over comes, after fewer than
\* 10,000 drops, and the score is never negative on the way.
C12_HardDropsReachGameOver ==
  /\ <>game_over
  /\ [](locks < 10000)
  /\ [](score >= 0)
  /\ [][~game_over => locks' = locks + 1]_vars

\* C12 witness: the game is over after more than seven drops, so that a
\* second bag was drawn from, and the loop has been left.
C12_Witness ==
  /\ game_over
  /\ locks > 7
  /\ locks = played
  /\ score >= 0
  /\ pc = "done"

(* ---------------------------------------------------------------------- *)
(* lock_piece(board, piece) followed by is_valid_position(board, piece),   *)
(* for a piece that is valid on the board (SpecLock)                       *)
(* ---------------------------------------------------------------------- *)

InitLock ==
  /\ NoSession
  /\ queue = <<>>
  /\ hist = <<>>
  /\ pc = "call"
  /\ arg \in {a \in PlayedBoards \X Pieces : is_valid_position(a[1], a[2])}
  /\ ret = <<>>

CallLockThenValid ==
  Returned(is_valid_position(lock_piece(arg[1], arg[2]), arg[2]))

NextLock == CallLockThenValid

SpecLock == InitLock /\ [][NextLock]_vars

\* The piece has a cell in one of the rows of the board.
HasCellOnBoard(piece) == \E i \in 1..4 : cells(piece)[i][2] >= 0

\* C13 as stated: for every board and every piece valid on it,
\* is_valid_position returns false for the piece once it is locked.
C13_LockedPieceNeverFits == pc = "returned" => ret = FALSE

\* C13: for every board and every piece valid on it, is_valid_position
\* returns false for the piece once it is locked if the piece has a cell
\* with y >= 0, and true if all its cells are above the top row: lock_piece
\* writes none of them and is_valid_position compares none with the board.
C13_LockedPieceFitsIffAboveBoard ==
  pc = "returned" => (ret = FALSE <=> HasCellOnBoard(arg[2]))

\* C13 witness: a piece with cells above the top row and cells in it was
\* locked on a played board and is no longer valid.
C13_Witness ==
  /\ pc = "returned"
  /\ ret = FALSE
  /\ arg[1] # create_board
  /\ HasCellOnBoard(arg[2])
  /\ \E i \in 1..4 : cells(arg[2])[i][2] < 0

(* ---------------------------------------------------------------------- *)
(* Tetromino.rotated(direction), called on a piece and on its results      *)
(* (SpecRotate)                                                            *)
(* ---------------------------------------------------------------------- *)

\* The number of calls followed.
MaxTurns == 4

Directions == {1, -1}

InitRotate ==
  /\ NoSession
  /\ queue = <<>>
  /\ hist = <<>>
  /\ pc = "call"
  /\ arg \in Pieces \X Directions
  /\ ret = <<>>

\* piece.rotated(direction).rotated(direction)..., n calls.
RECURSIVE Turned(_, _, _)
Turned(piece, direction, n) ==
  IF n = 0 THEN piece
  ELSE rotated(Turned(piece, direction, n - 1), direction)

\* The results of 0..MaxTurns calls with the direction, and of one call
\* with it followed by one call against it.
CallRotated ==
  Returned([turns |-> [n \in 0..MaxTurns |-> Turned(arg[1], arg[2], n)],
            back |-> rotated(rotated(arg[1], arg[2]), 0 - arg[2])])

NextRotate == CallRotated

SpecRotate == InitRotate /\ [][NextRotate]_vars

CellSet(piece) == {cells(piece)[i] : i \in 1..4}

\* C14: rotated(d) keeps kind and anchor and sets the rotation index to
\* (index + d) modulo the number of states of the kind; four calls with
\* the same direction give back the rotation index and the cells; a call
\* with +1 followed by one with -1, or with -1 followed by one with +1,
\* gives back the piece; no number of calls changes the cells of an O.
C14_RotationAlgebra ==
  pc = "returned" =>
    LET piece == arg[1]
        count == Len(SHAPES[piece.name])
    IN  /\ ret.turns[1].name = piece.name
        /\ ret.turns[1].position = piece.position
        /\ ret.turns[1].rotation \in 0..(count - 1)
        /\ \E q \in -1..1 :
             ret.turns[1].rotation = piece.rotation + arg[2] + q * count
        /\ ret.turns[4].rotation = piece.rotation
        /\ CellSet(ret.turns[4]) = CellSet(piece)
        /\ ret.back = piece
        /\ (piece.name = "O" =>
              \A n \in 0..MaxTurns : CellSet(ret.turns[n]) = CellSet(piece))

\* C14 witness: a T with rotation index 0 was turned counter-clockwise to
\* index 3, and four such calls gave back the index 0 through 3, 2 and 1.
C14_Witness ==
  /\ pc = "returned"
  /\ arg[1].name = "T"
  /\ arg[1].rotation = 0
  /\ arg[2] = -1
  /\ ret.turns[1].rotation = 3
  /\ ret.turns[2].rotation = 2
  /\ ret.turns[3].rotation = 1
  /\ ret.turns[4] = arg[1]

(* ---------------------------------------------------------------------- *)
(* Tetromino(name, rotation, position) with any name and rotation, and     *)
(* the methods called on the result (SpecConstruct).  An outcome is the    *)
(* value returned or the exception raised.                                 *)
(* ---------------------------------------------------------------------- *)

\* The rotation indices tried are those from -MaxRotation to MaxRotation.
MaxRotation == 5

Names == Kinds \cup {"X"}

Value(v) == [raised |-> "", value |-> v]

Raise(e) == [raised |-> e, value |-> <<>>]

\* The __init__ the dataclass decorator generates (lines 73-79) assigns
\* the three fields; the class has no __post_init__.
Tetromino_init(name, rotation, position) ==
  Value([name |-> name, rotation |-> rotation, position |-> position])

\* SHAPES[self.name][self.rotation] (line 83): a KeyError for a name that
\* is no key, an IndexError for an index outside -len..len-1, and for a
\* negative index in that range the state counted from the end.
cells_outcome(piece) ==
  IF piece.name \notin Kinds THEN Raise("KeyError")
  ELSE LET rotations == SHAPES[piece.name]
       IN  IF piece.rotation < 0 - Len(rotations)
              \/ piece.rotation >= Len(rotations)
           THEN Raise("IndexError")
           ELSE Value(cells([piece EXCEPT
                               !.rotation = PyIndex(@, Len(rotations))]))

\* moved builds the copy from the fields (lines 89-90).
moved_outcome(piece, dx, dy) ==
  Tetromino_init(piece.name, piece.rotation,
                 <<piece.position[1] + dx, piece.position[2] + dy>>)

\* rotated looks the name up (line 94) and reduces the index (line 95).
rotated_outcome(piece, direction) ==
  IF piece.name \notin Kinds THEN Raise("KeyError")
  ELSE Tetromino_init(piece.name,
                      (piece.rotation + direction) % Len(SHAPES[piece.name]),
                      piece.position)

InitConstruct ==
  /\ NoSession
  /\ queue = <<>>
  /\ hist = <<>>
  /\ pc = "call"
  /\ arg \in Names \X ((0 - MaxRotation)..MaxRotation) \X {<<3, 0>>, <<0, 18>>}
  /\ ret = <<>>

\* The construction and, if it returned a piece, moved(1, 0), rotated(1)
\* and cells() called on the piece.
CallTetromino ==
  LET made == Tetromino_init(arg[1], arg[2], arg[3])
  IN  Returned([made |-> made,
                moved |-> IF made.raised = "" THEN moved_outcome(made.value, 1, 0)
                          ELSE made,
                rotated |-> IF made.raised = ""
                            THEN rotated_outcome(made.value, 1)
                            ELSE made,
                cells |-> IF made.raised = "" THEN cells_outcome(made.value)
                          ELSE made])

NextConstruct == CallTetromino

SpecConstruct == InitConstruct /\ [][NextConstruct]_vars

\* A kind and a rotation index of that kind.
ValidInput(name, rotation) ==
  /\ name \in Kinds
  /\ rotation \in 0..(Len(SHAPES[name]) - 1)

\* C15 as stated: the construction of a piece with a name that is no kind,
\* or with a rotation index that is none of its kind, raises.
C15_InvalidConstructionFails ==
  pc = "returned" /\ ~ValidInput(arg[1], arg[2]) => ret.made.raised # ""

\* What the code does with ("T", -1, (3, 0)): the piece is constructed,
\* moved and rotated return pieces, and cells returns the cells of the
\* state 3.
C15_SilentlyAccepted ==
  /\ pc = "returned"
  /\ arg = <<"T", -1, <<3, 0>> >>
  /\ ret.made.raised = ""
  /\ ret.moved.raised = ""
  /\ ret.rotated.raised = ""
  /\ ret.cells = Value(cells([name |-> "T", rotation |-> 3,
                               position |-> <<3, 0>>]))

(* ---------------------------------------------------------------------- *)
(* The session (Spec): what holds in every state                           *)
(* ---------------------------------------------------------------------- *)

\* The cell c is one of the board b and is empty.
OnBoardAndEmpty(b, c) ==
  /\ 0 <= c[1]
  /\ c[1] < 10
  /\ 0 <= c[2]
  /\ c[2] < 20
  /\ b[c[2] + 1][c[1] + 1] = None

\* C16: while the game is not over every cell of the current piece is in
\* columns 0..9 and rows 0..19, none above the top row, and is empty on the
\* board; when the game is over the current piece is at the spawn anchor
\* (3, 0) and one of its cells is occupied on the board.
C16_CurrentPieceValidUntilGameOver ==
  /\ ~game_over =>
       \A i \in 1..4 : OnBoardAndEmpty(board, cells(current_piece)[i])
  /\ game_over =>
       /\ current_piece.position = <<3, 0>>
       /\ \E i \in 1..4 :
            LET c == cells(current_piece)[i]
            IN  board[c[2] + 1][c[1] + 1] # None

\* C16 witness: a lock of this exploration ended the game: the piece
\* spawned on an occupied cell.
C16_Witness ==
  /\ game_over
  /\ played = 1
  /\ locks = 11
  /\ current_piece.position = <<3, 0>>
  /\ ~Fits(board, current_piece)

\* C17: every settle_piece call clears between 0 and 4 rows, each of them a
\* row holding a cell of the piece just locked, and no state between
\* events has a full row on its board.
C17_ClearedRowsHoldTheLockedPiece ==
  /\ [](FullRows(board) = {} /\ cleared \in 0..4)
  /\ [][locks' # locks =>
          LET piece == locked'[1]
              full == FullRows(lock_piece(board, piece))
          IN  /\ cleared' = Cardinality(full)
              /\ \A y \in full : \E i \in 1..4 : cells(piece)[i][2] = y]_vars

\* C17 witness: a T locked with a cell in the bottom row cleared that row,
\* and the board is left without a full row.
C17_Witness ==
  /\ locked # <<>>
  /\ played = 1
  /\ cleared = 1
  /\ locked[1].name = "T"
  /\ \E i \in 1..4 : cells(locked[1])[i][2] = 19
  /\ FullRows(board) = {}

\* C18: in every state level = max(1, lines // 10 + 1) and drop interval =
\* max(100, 700 - (level - 1) * 60); before the first lock the board is
\* empty, score and lines are 0, the level is 1, the interval 700, and the
\* current kind, the next kind and the queue are a shuffle of the seven
\* kinds in the order of its draws.
C18_LevelAndIntervalFollowLines ==
  LET larger(a, b) == IF a >= b THEN a ELSE b
  IN  /\ level = larger(1, (lines_cleared \div 10) + 1)
      /\ drop_interval = larger(100, 700 - (level - 1) * 60)
      /\ locks = 0 =>
           /\ board = [y \in 1..20 |-> [x \in 1..10 |-> None]]
           /\ score = 0
           /\ lines_cleared = 0
           /\ level = 1
           /\ drop_interval = 700
           /\ (<<current_piece.name, next_piece_name>> \o queue) \in AllShuffles

\* C18 witness: the twenty-seventh lock cleared the tenth line, and level
\* and interval were set to 2 and 640.
C18_Witness ==
  /\ locks = 27
  /\ played = 1
  /\ lines_cleared = 10
  /\ level = 2
  /\ drop_interval = 640

\* The occupied cells of the board b, as pairs <<x, y>>.
Occupied(b) == {c \in (0..9) \X (0..19) : b[c[2] + 1][c[1] + 1] # None}

\* C19: every lock of a session writes the kind of the locked piece into
\* exactly its 4 cells, which were empty, and changes no other cell (the
\* board after the step is that board with its full rows cleared); in
\* every state the board has 20 rows of 10 cells, each empty or one of the
\* 7 kinds, and the number of occupied cells is 4 times the number of
\* locks minus 10 times the number of lines cleared.
C19_LocksWriteFourEmptyCells ==
  /\ [](/\ Len(board) = 20
        /\ \A y \in 1..20 :
             /\ Len(board[y]) = 10
             /\ \A x \in 1..10 :
                  board[y][x] \in {"I", "J", "L", "O", "S", "T", "Z", None}
        /\ Cardinality(Occupied(board)) = 4 * locks - 10 * lines_cleared)
  /\ [][locks' # locks =>
          \A piece \in {locked'[1]} : \A cs \in {CellSet(piece)} :
            LET written == [y \in 1..20 |-> [x \in 1..10 |->
                              IF <<x - 1, y - 1>> \in cs
                              THEN piece.name ELSE board[y][x]]]
            IN  /\ Cardinality(cs) = 4
                /\ \A c \in cs :
                     /\ c \in (0..9) \X (0..19)
                     /\ board[c[2] + 1][c[1] + 1] = None
                /\ board' = clear_lines(written).board]_vars

\* C19 witness: the first lock of a session: four cells are occupied, those
\* of the locked piece, by its kind.
C19_Witness ==
  /\ locks = 1
  /\ played = 1
  /\ lines_cleared = 0
  /\ Occupied(board) = CellSet(locked[1])
  /\ \A c \in Occupied(board) : board[c[2] + 1][c[1] + 1] = locked[1].name

(* ---------------------------------------------------------------------- *)
(* The session with its DROP_EVENTs counted                                *)
(* ---------------------------------------------------------------------- *)

\* The sessions explored with the count: the one with the stack.
TickStarts == {<<SHAPE_ORDER, Stack>>}

InitTicks ==
  \E start \in TickStarts :
    LET s == Run(NewSession(start[1]), start[2], start[1])
    IN  /\ board = s.board
        /\ current_piece = s.current_piece
        /\ next_piece_name = s.next_piece_name
        /\ queue = s.queue
        /\ score = s.score
        /\ lines_cleared = s.lines_cleared
        /\ level = s.level
        /\ drop_interval = s.drop_interval
        /\ game_over = s.game_over
        /\ running = s.running
        /\ locked = s.locked
        /\ settled_by = s.settled_by
        /\ cleared = s.cleared
        /\ kick = s.kick
        /\ rejected = s.rejected
        /\ locks = s.locks
        /\ played = 0
        /\ pc = "loop"
        /\ arg = <<>>
        /\ ret = <<>>
        /\ hist = [ticks |-> 0, last |-> 0]

\* The session becomes s after an event that is (tick = 1) or is not
\* (tick = 0) a DROP_EVENT.
Counted(s, tick) ==
  /\ Assigns(s)
  /\ hist' = IF s.locks # locks
             THEN [ticks |-> 0, last |-> hist.ticks + tick]
             ELSE [ticks |-> hist.ticks + tick, last |-> 0]
  /\ UNCHANGED <<arg, ret>>

CountedDropEvent ==
  /\ Accepting
  /\ \E bag \in Refills : Counted(OnDropEvent(Session, bag), 1)

\* K_LEFT, K_RIGHT, K_DOWN or K_UP
CountedKey ==
  /\ Accepting
  /\ \E s \in {OnLeft(Session), OnRight(Session), OnDown(Session),
               OnUp(Session)} : Counted(s, 0)

CountedSpace ==
  /\ Accepting
  /\ \E bag \in Refills : Counted(OnSpace(Session, bag), 0)

CountedQuit ==
  /\ Accepting
  /\ Counted(OnQuit(Session), 0)

NextTicks ==
  \/ CountedDropEvent
  \/ CountedKey
  \/ CountedSpace
  \/ CountedQuit
  \/ Exit

\* A DROP_EVENT is taken, seen by the counts alone.  The timer set at lines
\* 322, 353 and 403 keeps posting DROP_EVENTs while the loop runs.
DropEventTaken ==
  /\ Accepting
  /\ \/ hist' = [ticks |-> hist.ticks + 1, last |-> 0] /\ locks' = locks
     \/ hist' = [ticks |-> 0, last |-> hist.ticks + 1] /\ locks' = locks + 1

SpecTicks ==
  InitTicks /\ [][NextTicks]_vars /\ WF_<<hist, locks>>(DropEventTaken)

====
